---- MODULE Spec2Model ----
(***************************************************************************)
(* The multi-agent workflow of "S2 - Building a Multi-Agent System": a     *)
(* state graph with the nodes orchestrator, worker and synthesizer, the    *)
(* shared State (messages, analyses) with its two reducers, and one run    *)
(* of the compiled graph (app.invoke).                                     *)
(***************************************************************************)
EXTENDS Integers, Sequences, FiniteSets, TLC

(* ---------------------------- bounds ----------------------------------- *)

\* largest number of research tasks the CIA model puts in one decision
MaxTasks == 3

\* longest list handed to a reducer, as the current value or as the update
MaxLen == 2

\* number of runs of the compiled graph, one after the other
MaxRuns == 2

(* ---------------------------- values ----------------------------------- *)

\* Python's None
None == [kind |-> "none"]

\* langgraph.graph.END
END == "__end__"

\* the client request of the notebook, and the contents the models produce
Request == "request"
Responses == {"response"}
Reports == {"r1", "r2"}
Answers == {"answer"}

\* ResearchTask(topic, description)
ResearchTasks ==
    { [topic |-> "tA", description |-> "dA"],
      [topic |-> "tB", description |-> "dB"] }

\* a Python list
List(items) == [kind |-> "list", items |-> items]

RECURSIVE SeqsUpTo(_, _)
SeqsUpTo(S, n) ==
    IF n = 0 THEN { <<>> }
    ELSE LET shorter == SeqsUpTo(S, n - 1)
         IN  shorter \cup { Append(s, x) : s \in { t \in shorter : Len(t) = n - 1 }, x \in S }

\* OrchestratorDecision(response, in_scope, research_tasks: list | None)
OrchestratorDecision ==
    [ response : Responses,
      in_scope : BOOLEAN,
      research_tasks : { List(ts) : ts \in SeqsUpTo(ResearchTasks, MaxTasks) } \cup {None} ]

\* a bare str and a BaseMessage, as they are handed to add_messages
Str(s) == [kind |-> "str", content |-> s]
BaseMessage(role, content, id) == [kind |-> "msg", role |-> role, content |-> content, id |-> id]

\* a message id made by uuid4: the n-th fresh id of the run
Uuid(n) == [kind |-> "uuid", n |-> n]

\* Send(node, arg)
Send(node, arg) == [node |-> node, arg |-> arg]

\* Command(update, goto): goto is END, one node name, or a list of Send
Terminal == [kind |-> "terminal"]
Single(name) == [kind |-> "single", dest |-> name]
FanOut(sends) == [kind |-> "fanout", sends |-> sends]
Goto(g) == IF g = END THEN Terminal ELSE Single(g)
Command(update, goto) == [update |-> update, goto |-> goto]

(* ---------------------------- State and its reducers ------------------- *)

\* mutant: the field has no reducer, the last update overwrites it
broken_operator_add(left, right) == right

\* mutant: an incoming record the list already holds is dropped
operator_add_dedup(left, right) ==
    left \o SelectSeq(right, LAMBDA r : \A i \in 1..Len(left) : left[i] # r)

\* mutant: the shorter list is put first, whichever side it comes from
operator_add_unordered(left, right) ==
    IF Len(right) < Len(left) THEN right \o left ELSE left \o right

\* operator.add on lists: the reducer of State.analyses
operator_add(left, right) == left \o right

\* convert_to_messages: a bare str becomes a HumanMessage without an id
convert_to_message(m) ==
    IF m.kind = "str" THEN BaseMessage("human", m.content, None) ELSE m

\* mutant: a message that comes without an id is stored without one
assign_ids_keeps_none(ms, next) == ms

RECURSIVE assign_ids(_, _)
\* add_messages gives every message that has no id a fresh one (uuid4)
assign_ids(ms, next) ==
    IF ms = <<>> THEN <<>>
    ELSE IF Head(ms).id = None
         THEN <<[Head(ms) EXCEPT !.id = Uuid(next)]>> \o assign_ids(Tail(ms), next + 1)
         ELSE <<Head(ms)>> \o assign_ids(Tail(ms), next)

RECURSIVE count_new_ids(_)
count_new_ids(ms) ==
    IF ms = <<>> THEN 0
    ELSE (IF Head(ms).id = None THEN 1 ELSE 0) + count_new_ids(Tail(ms))

StateMessage(m) == [id |-> m.id, role |-> m.role, content |-> m.content]

RECURSIVE upsert_always_appends(_, _)
\* mutant: every incoming message is appended, whatever its id
upsert_always_appends(merged, ms) ==
    IF ms = <<>> THEN merged
    ELSE upsert_always_appends(Append(merged, StateMessage(Head(ms))), Tail(ms))

RECURSIVE upsert_moves_to_end(_, _)
\* mutant: a message that replaces a stored one is moved to the end
upsert_moves_to_end(merged, ms) ==
    IF ms = <<>> THEN merged
    ELSE LET m == StateMessage(Head(ms))
             kept == SelectSeq(merged, LAMBDA e : e.id # m.id)
         IN  upsert_moves_to_end(Append(kept, m), Tail(ms))

RECURSIVE upsert(_, _)
\* an incoming message replaces the stored one with its id, else it is appended
upsert(merged, ms) ==
    IF ms = <<>> THEN merged
    ELSE LET m == StateMessage(Head(ms))
             hit == { i \in 1..Len(merged) : merged[i].id = m.id }
         IN  IF hit = {}
             THEN upsert(Append(merged, m), Tail(ms))
             ELSE upsert([merged EXCEPT ![CHOOSE i \in hit : TRUE] = m], Tail(ms))

as_list(right) == IF right.kind = "list" THEN right.items ELSE <<right>>

converted(right) == [i \in 1..Len(as_list(right)) |-> convert_to_message(as_list(right)[i])]

\* mutant: messages reduced like analyses, the update joined on as it comes
add_messages_concatenates(left, right, next) ==
    left \o [i \in 1..Len(converted(right)) |-> StateMessage(converted(right)[i])]

\* mutant: messages declared without its reducer, an update overwrites it
add_messages_overwrites(left, right, next) ==
    [i \in 1..Len(converted(right)) |-> StateMessage(assign_ids(converted(right), next)[i])]

\* langgraph.graph.message.add_messages: the reducer of State.messages
add_messages(left, right, next) == upsert(left, assign_ids(converted(right), next))

\* State(): both fields default to the empty list
State == [messages |-> <<>>, analyses |-> <<>>]

\* one update applied to the State, each field through its reducer
apply_update(st, update, next) ==
    [ messages |-> IF "messages" \in DOMAIN update
                   THEN add_messages(st.messages, update.messages, next)
                   ELSE st.messages,
      analyses |-> IF "analyses" \in DOMAIN update
                   THEN operator_add(st.analyses, update.analyses)
                   ELSE st.analyses ]

new_ids(update) ==
    IF "messages" \in DOMAIN update THEN count_new_ids(converted(update.messages)) ELSE 0

RECURSIVE apply_writes(_, _, _)
\* the updates of one Step, applied in branch spawn order
apply_writes(st, updates, next) ==
    IF updates = <<>> THEN st
    ELSE apply_writes(apply_update(st, Head(updates), next), Tail(updates),
                      next + new_ids(Head(updates)))

RECURSIVE count_writes_ids(_)
count_writes_ids(updates) ==
    IF updates = <<>> THEN 0 ELSE new_ids(Head(updates)) + count_writes_ids(Tail(updates))

(* ---------------------------- the nodes --------------------------------- *)

\* what a node invocation gives back: a Command, or the exception it raised
Raise(exc) == [kind |-> "raise", error |-> exc]
Return(cmd) == [kind |-> "command", update |-> cmd.update, goto |-> cmd.goto]

\* a model call that fails (network, API) instead of answering
ModelError == [kind |-> "error"]

\* what cia_model.invoke, the worker's model calls and the RSA model can answer
CiaOutputs == OrchestratorDecision \cup {ModelError}
BraOutputs == { [kind |-> "ai", content |-> c] : c \in Reports } \cup {ModelError}
RsaOutputs == { [kind |-> "ai", content |-> c] : c \in Answers } \cup {ModelError}

\* [Send("worker", task) for task in cia_output.research_tasks]
worker_sends(tasks) == [i \in 1..Len(tasks) |-> Send("worker", tasks[i])]

\* mutant: the synthesizer is dispatched together with the workers
orchestrator_sends_synthesizer(state, cia_output) ==
    IF state.messages = <<>> THEN Raise("IndexError")
    ELSE IF cia_output = ModelError THEN Raise("ModelError")
    ELSE IF cia_output.in_scope /\ cia_output.research_tasks = None THEN Raise("TypeError")
    ELSE Return(Command([messages |-> Str(cia_output.response)],
                        IF cia_output.in_scope
                        THEN FanOut(Append(worker_sends(cia_output.research_tasks.items),
                                           Send("synthesizer", state)))
                        ELSE Goto(END)))

\* mutant: the workers are dispatched whether or not the request is in scope
orchestrator_ignores_scope(state, cia_output) ==
    IF state.messages = <<>> THEN Raise("IndexError")
    ELSE IF cia_output = ModelError THEN Raise("ModelError")
    ELSE IF cia_output.research_tasks = None THEN Raise("TypeError")
    ELSE Return(Command([messages |-> Str(cia_output.response)],
                        FanOut(worker_sends(cia_output.research_tasks.items))))

\* mutant: every Send carries the first research task
orchestrator_sends_first_task(state, cia_output) ==
    IF state.messages = <<>> THEN Raise("IndexError")
    ELSE IF cia_output = ModelError THEN Raise("ModelError")
    ELSE IF cia_output.in_scope /\ cia_output.research_tasks = None THEN Raise("TypeError")
    ELSE Return(Command([messages |-> Str(cia_output.response)],
                        IF cia_output.in_scope
                        THEN FanOut([i \in 1..Len(cia_output.research_tasks.items) |->
                                        Send("worker", cia_output.research_tasks.items[1])])
                        ELSE Goto(END)))

\* mutant: with no research task the orchestrator goes on to the synthesizer
orchestrator_empty_to_synthesizer(state, cia_output) ==
    IF state.messages = <<>> THEN Raise("IndexError")
    ELSE IF cia_output = ModelError THEN Raise("ModelError")
    ELSE IF cia_output.in_scope /\ cia_output.research_tasks = None THEN Raise("TypeError")
    ELSE Return(Command([messages |-> Str(cia_output.response)],
                        IF cia_output.in_scope
                        THEN (IF cia_output.research_tasks.items = <<>>
                              THEN Goto("synthesizer")
                              ELSE FanOut(worker_sends(cia_output.research_tasks.items)))
                        ELSE Goto(END)))

\* mutant: the orchestrator does not read the last message
orchestrator_skips_display(state, cia_output) ==
    IF cia_output = ModelError THEN Raise("ModelError")
    ELSE IF cia_output.in_scope /\ cia_output.research_tasks = None THEN Raise("TypeError")
    ELSE Return(Command([messages |-> Str(cia_output.response)],
                        IF cia_output.in_scope
                        THEN FanOut(worker_sends(cia_output.research_tasks.items))
                        ELSE Goto(END)))

\* orchestrator_node(state): reads the last message, asks the CIA model, and
\* returns the response as the messages update with a Send per research
\* task when the request is in scope, END otherwise
orchestrator_node(state, cia_output) ==
    IF state.messages = <<>> THEN Raise("IndexError")
    ELSE IF cia_output = ModelError THEN Raise("ModelError")
    ELSE IF cia_output.in_scope /\ cia_output.research_tasks = None THEN Raise("TypeError")
    ELSE Return(Command([messages |-> Str(cia_output.response)],
                        IF cia_output.in_scope
                        THEN FanOut(worker_sends(cia_output.research_tasks.items))
                        ELSE Goto(END)))

\* mutant: the worker ends its branch instead of going to the synthesizer
worker_to_end(task, bra_output) ==
    IF bra_output = ModelError THEN Raise("ModelError")
    ELSE Return(Command([analyses |-> <<bra_output.content>>], Goto(END)))

\* mutant: the worker returns no report
worker_no_analysis(task, bra_output) ==
    IF bra_output = ModelError THEN Raise("ModelError")
    ELSE Return(Command([analyses |-> <<>>], Goto("synthesizer")))

\* mutant: the worker hands its report back to the orchestrator
worker_to_orchestrator(task, bra_output) ==
    IF bra_output = ModelError THEN Raise("ModelError")
    ELSE Return(Command([analyses |-> <<bra_output.content>>], Goto("orchestrator")))

\* mutant: the worker also posts its report as a message
worker_posts_message(task, bra_output) ==
    IF bra_output = ModelError THEN Raise("ModelError")
    ELSE Return(Command([analyses |-> <<bra_output.content>>,
                         messages |-> Str(bra_output.content)], Goto("synthesizer")))

\* worker_node(task): one research report appended to analyses, then the
\* synthesizer
worker_node(task, bra_output) ==
    IF bra_output = ModelError THEN Raise("ModelError")
    ELSE Return(Command([analyses |-> <<bra_output.content>>], Goto("synthesizer")))

\* mutant: the synthesizer routes to itself instead of END
synthesizer_loops(state, rsa_output) ==
    IF rsa_output = ModelError THEN Raise("ModelError")
    ELSE Return(Command([messages |-> BaseMessage("ai", rsa_output.content, None)],
                        Goto("synthesizer")))

\* mutant: the synthesizer files its answer under analyses
synthesizer_updates_analyses(state, rsa_output) ==
    IF rsa_output = ModelError THEN Raise("ModelError")
    ELSE Return(Command([analyses |-> <<rsa_output.content>>], Goto(END)))

\* synthesizer_node(state): the final answer appended to messages, then END
synthesizer_node(state, rsa_output) ==
    IF rsa_output = ModelError THEN Raise("ModelError")
    ELSE Return(Command([messages |-> BaseMessage("ai", rsa_output.content, None)], Goto(END)))

(* ---------------------------- one run of the graph ---------------------- *)

VARIABLES
    phase,       \* "idle", "running", "done" or "aborted"
    state,       \* the shared State of the run
    active,      \* the branches of the current Step, in spawn order
    step,        \* number of the current Step
    next_id,     \* number of the next fresh message id
    cia_output,  \* the decision the CIA model gave, None before
    error,       \* what the node that ended the run raised, None if none
    result,      \* what app.invoke returned, None before
    calls,       \* every node invocation of the run so far: node, step, index in the Step, input, outcome
    graph,       \* the graph under construction, then compiled: its nodes and its entry point
    runs         \* for each earlier run of the compiled graph, the number of the next fresh id when it ended

vars == <<phase, state, active, step, next_id, cia_output, error, result, calls, graph, runs>>

\* a branch: a node, its input, and its outcome once it has run
Branch(node, input) == [node |-> node, input |-> input, status |-> "pending", out |-> None]

\* the nodes in the order graph_builder registers them
NodeNames == <<"orchestrator", "worker", "synthesizer">>

\* StateGraph(State): no node, no entry point, not compiled
StateGraph == [nodes |-> {}, entry |-> {}, compiled |-> FALSE]

\* app, the graph the notebook compiles: the three nodes, entered at the
\* orchestrator
CompiledGraph ==
    [ nodes |-> { NodeNames[i] : i \in 1..Len(NodeNames) },
      entry |-> { NodeNames[1] },
      compiled |-> TRUE ]

\* the node a run of the graph starts at
EntryPoint(g) == CHOOSE name \in g.entry : TRUE

Init ==
    /\ phase = "idle"
    /\ state = State
    /\ active = <<>>
    /\ step = 0
    /\ next_id = 1
    /\ cia_output = None
    /\ error = None
    /\ result = None
    /\ calls = <<>>
    /\ graph = CompiledGraph
    /\ runs = <<>>

\* mutant: the seed is stored as the value of the field, past its reducer
invoke_assigns_seed(with_request) ==
    /\ phase = "idle"
    /\ graph.compiled
    /\ LET seeded == IF with_request
                     THEN [State EXCEPT !.messages = <<StateMessage(convert_to_message(Str(Request)))>>]
                     ELSE State
       IN  /\ state' = seeded
           /\ active' = <<Branch(EntryPoint(graph), seeded)>>
    /\ phase' = "running"
    /\ step' = 1
    /\ UNCHANGED <<next_id, cia_output, error, result, calls, graph, runs>>

\* mutant: the seed is merged into what the previous run left in State
invoke_keeps_state(with_request) ==
    /\ phase = "idle"
    /\ graph.compiled
    /\ LET seed == [messages |-> IF with_request THEN Str(Request) ELSE List(<<>>)]
           seeded == apply_update(state, seed, next_id)
       IN  /\ state' = seeded
           /\ next_id' = next_id + new_ids(seed)
           /\ active' = <<Branch(EntryPoint(graph), seeded)>>
    /\ phase' = "running"
    /\ step' = 1
    /\ UNCHANGED <<cia_output, error, result, calls, graph, runs>>

\* app.invoke({"messages": request}), or app.invoke({"messages": []}) when
\* with_request is false
invoke(with_request) ==
    /\ phase = "idle"
    /\ graph.compiled
    /\ LET seed == [messages |-> IF with_request THEN Str(Request) ELSE List(<<>>)]
           seeded == apply_update(State, seed, next_id)
       IN  /\ state' = seeded
           /\ next_id' = next_id + new_ids(seed)
           /\ active' = <<Branch(EntryPoint(graph), seeded)>>
    /\ phase' = "running"
    /\ step' = 1
    /\ UNCHANGED <<cia_output, error, result, calls, graph, runs>>

\* branch i of the current Step has run and left outcome out
finished(i, out) ==
    /\ active' = [active EXCEPT ![i].status = IF out.kind = "raise" THEN "raised" ELSE "returned",
                                ![i].out = out]
    /\ calls' = Append(calls, [node |-> active[i].node, step |-> step, index |-> i,
                               input |-> active[i].input, out |-> out])

run_orchestrator(i) ==
    /\ phase = "running"
    /\ i \in 1..Len(active)
    /\ active[i].status = "pending"
    /\ active[i].node = "orchestrator"
    /\ \E answer \in CiaOutputs :
          /\ finished(i, orchestrator_node(active[i].input, answer))
          /\ cia_output' = IF active[i].input.messages = <<>> \/ answer = ModelError
                           THEN cia_output ELSE answer
    /\ UNCHANGED <<phase, state, step, next_id, error, result, graph, runs>>

\* mutant: a worker that raised stays scheduled and is invoked again
run_worker_retries(i) ==
    /\ phase = "running"
    /\ i \in 1..Len(active)
    /\ active[i].status = "pending"
    /\ active[i].node = "worker"
    /\ \E answer \in BraOutputs :
          LET out == worker_node(active[i].input, answer)
          IN  /\ calls' = Append(calls, [node |-> active[i].node, step |-> step, index |-> i,
                                         input |-> active[i].input, out |-> out])
              /\ active' = IF out.kind = "raise" THEN active
                           ELSE [active EXCEPT ![i].status = "returned", ![i].out = out]
    /\ UNCHANGED <<phase, state, step, next_id, cia_output, error, result, graph, runs>>

run_worker(i) ==
    /\ phase = "running"
    /\ i \in 1..Len(active)
    /\ active[i].status = "pending"
    /\ active[i].node = "worker"
    /\ \E answer \in BraOutputs : finished(i, worker_node(active[i].input, answer))
    /\ UNCHANGED <<phase, state, step, next_id, cia_output, error, result, graph, runs>>

\* mutant: the synthesizer appends its answer to the State it was handed
run_synthesizer_in_place(i) ==
    /\ phase = "running"
    /\ i \in 1..Len(active)
    /\ active[i].status = "pending"
    /\ active[i].node = "synthesizer"
    /\ \E answer \in RsaOutputs :
          /\ finished(i, synthesizer_node(active[i].input, answer))
          /\ state' = IF answer = ModelError THEN state
                      ELSE [state EXCEPT !.messages =
                               Append(@, StateMessage(BaseMessage("ai", answer.content, None)))]
    /\ UNCHANGED <<phase, step, next_id, cia_output, error, result, graph, runs>>

run_synthesizer(i) ==
    /\ phase = "running"
    /\ i \in 1..Len(active)
    /\ active[i].status = "pending"
    /\ active[i].node = "synthesizer"
    /\ \E answer \in RsaOutputs : finished(i, synthesizer_node(active[i].input, answer))
    /\ UNCHANGED <<phase, state, step, next_id, cia_output, error, result, graph, runs>>

RECURSIVE fan_out(_)
\* the branches the Sends of the Step's Commands spawn, in order
fan_out(cmds) ==
    IF cmds = <<>> THEN <<>>
    ELSE (IF Head(cmds).goto.kind = "fanout"
          THEN [k \in 1..Len(Head(cmds).goto.sends) |->
                    Branch(Head(cmds).goto.sends[k].node, Head(cmds).goto.sends[k].arg)]
          ELSE <<>>) \o fan_out(Tail(cmds))

\* the nodes named as a single destination by some Command of the Step
destinations(cmds) ==
    { cmds[k].goto.dest : k \in { j \in 1..Len(cmds) : cmds[j].goto.kind = "single" } }

RECURSIVE state_branches(_, _, _)
\* one branch per destination node, however many Commands name it
state_branches(names, dests, st) ==
    IF names = <<>> THEN <<>>
    ELSE (IF Head(names) \in dests THEN <<Branch(Head(names), st)>> ELSE <<>>)
         \o state_branches(Tail(names), dests, st)

\* Route: the branches of the next Step
route(cmds, st) == fan_out(cmds) \o state_branches(NodeNames, destinations(cmds), st)

commands == [i \in 1..Len(active) |-> active[i].out]

\* mutant: the updates of the Step are taken in the order its branches completed
updates_in_completion_order ==
    [k \in 1..Len(active) |-> calls[Len(calls) - Len(active) + k].out.update]

\* the updates of the Step, in branch spawn order
updates == [i \in 1..Len(active) |-> active[i].out.update]

\* the fields of the schema: those State declares, each with its reducer
Fields == DOMAIN State

\* mutant: a field the schema does not have is dropped from the update
outside_schema_ignored(ups) == FALSE

\* some update of the Step names a field the schema does not have
outside_schema(ups) == \E i \in 1..Len(ups) : ~(DOMAIN ups[i] \subseteq Fields)

\* some branch is routed to a node the graph has not registered
unresolved(g, branches) == \E i \in 1..Len(branches) : branches[i].node \notin g.nodes

\* the errors of a run that are not a node's own exception
RunTimeErrors == { "SchemaError", "ReducerError", "MalformedDecisionError", "NodeExecutionError" }

\* Merge and Route: every branch of the Step has returned its Command. An
\* update outside the schema ends the run with SchemaError and nothing of the
\* Step merged; a destination that is not registered is found when it is
\* resolved, after the merge, and ends the run with a run-time error.
merge_step ==
    /\ phase = "running"
    /\ active # <<>>
    /\ \A i \in 1..Len(active) : active[i].status = "returned"
    /\ IF outside_schema(updates)
       THEN /\ phase' = "aborted"
            /\ error' = Raise("SchemaError")
            /\ active' = <<>>
            /\ UNCHANGED <<state, result, step, next_id>>
       ELSE LET merged == apply_writes(state, updates, next_id)
                next == route(commands, merged)
            IN  /\ state' = merged
                /\ next_id' = next_id + count_writes_ids(updates)
                /\ IF unresolved(graph, next)
                   THEN /\ phase' = "aborted"
                        /\ \E kind \in RunTimeErrors : error' = Raise(kind)
                        /\ active' = <<>>
                        /\ UNCHANGED <<result, step>>
                   ELSE /\ active' = next
                        /\ error' = error
                        /\ IF next = <<>>
                           THEN phase' = "done" /\ result' = merged /\ step' = step
                           ELSE phase' = "running" /\ result' = result /\ step' = step + 1
    /\ UNCHANGED <<cia_output, calls, graph, runs>>

\* mutant: the updates of the siblings that returned are merged before the
\* run ends with the exception
abort_run_merges_siblings ==
    /\ phase = "running"
    /\ \E i \in 1..Len(active) :
          /\ active[i].status = "raised"
          /\ error' = active[i].out
    /\ phase' = "aborted"
    /\ active' = <<>>
    /\ state' = apply_writes(state,
                             [k \in 1..Len(active) |->
                                 IF active[k].status = "returned"
                                 THEN active[k].out.update ELSE <<>>],
                             next_id)
    /\ UNCHANGED <<step, next_id, cia_output, result, calls, graph, runs>>

\* a branch of the Step raised: the run ends with its exception, nothing of
\* the Step is merged
abort_run ==
    /\ phase = "running"
    /\ \E i \in 1..Len(active) :
          /\ active[i].status = "raised"
          /\ error' = active[i].out
    /\ phase' = "aborted"
    /\ active' = <<>>
    /\ UNCHANGED <<state, step, next_id, cia_output, result, calls, graph, runs>>

Next ==
    \/ \E with_request \in BOOLEAN : invoke(with_request)
    \/ \E i \in 1..Len(active) : run_orchestrator(i)
    \/ \E i \in 1..Len(active) : run_worker(i)
    \/ \E i \in 1..Len(active) : run_synthesizer(i)
    \/ merge_step
    \/ abort_run

Spec == Init /\ [][Next]_vars

(* ---------------------------- building the graph ------------------------ *)

\* graph_builder = StateGraph(State): nothing registered, nothing run
BuildInit ==
    /\ phase = "idle"
    /\ state = State
    /\ active = <<>>
    /\ step = 0
    /\ next_id = 1
    /\ cia_output = None
    /\ error = None
    /\ result = None
    /\ calls = <<>>
    /\ graph = StateGraph
    /\ runs = <<>>

\* a call on the builder raised: the cell stops there
build_failed(exc) ==
    /\ phase' = "failed"
    /\ error' = Raise(exc)
    /\ UNCHANGED <<state, active, step, next_id, cia_output, result, calls, graph, runs>>

\* the call went through and left the builder as g
built(g) ==
    /\ graph' = g
    /\ UNCHANGED <<phase, state, active, step, next_id, cia_output, error, result, calls, runs>>

\* graph_builder.add_node(name, fn)
add_node(name) ==
    /\ phase = "idle"
    /\ ~graph.compiled
    /\ IF name \in graph.nodes
       THEN build_failed("DuplicateNodeError")
       ELSE built([graph EXCEPT !.nodes = @ \cup {name}])

\* mutant: the entry point must be registered when it is set
set_entry_point_checked(name) ==
    /\ phase = "idle"
    /\ ~graph.compiled
    /\ IF name \in graph.nodes
       THEN built([graph EXCEPT !.entry = {name}])
       ELSE build_failed("UnknownNodeError")

\* graph_builder.set_entry_point(name): the name is recorded as it is given,
\* the notebook calls it before the node is added
set_entry_point(name) ==
    /\ phase = "idle"
    /\ ~graph.compiled
    /\ built([graph EXCEPT !.entry = {name}])

\* mutant: the builder is compiled as it stands
compile_unchecked ==
    /\ phase = "idle"
    /\ ~graph.compiled
    /\ built([graph EXCEPT !.compiled = TRUE])

\* app = graph_builder.compile(): the entry point must be set and registered
compile ==
    /\ phase = "idle"
    /\ ~graph.compiled
    /\ IF graph.entry = {} THEN build_failed("NoEntryPointError")
       ELSE IF ~(graph.entry \subseteq graph.nodes) THEN build_failed("UnknownNodeError")
       ELSE built([graph EXCEPT !.compiled = TRUE])

\* the names the cells of the notebook hand to the builder
BuilderNames == { NodeNames[i] : i \in 1..Len(NodeNames) }

BuildNext ==
    \/ \E name \in BuilderNames : add_node(name)
    \/ \E name \in BuilderNames : set_entry_point(name)
    \/ compile
    \/ Next

\* the graph is built call by call, compiled, and run
BuildSpec == BuildInit /\ [][BuildNext]_vars

\* the run is over and app.invoke is called again on the same compiled
\* graph: nothing of the finished run is handed to the next one but the
\* compiled graph; runs records the first id the new run will hand out
next_run ==
    /\ phase \in {"done", "aborted"}
    /\ Len(runs) < MaxRuns - 1
    /\ phase' = "idle"
    /\ active' = <<>>
    /\ step' = 0
    /\ cia_output' = None
    /\ error' = None
    /\ result' = None
    /\ calls' = <<>>
    /\ runs' = Append(runs, next_id)
    /\ UNCHANGED <<state, next_id, graph>>

RunsNext ==
    \/ Next
    \/ next_run

\* the compiled graph is run MaxRuns times
RunsSpec == Init /\ [][RunsNext]_vars

\* the Executor runs every branch it has scheduled and ends every Step
FairSpec == Spec /\ WF_vars(Next)

(* ---------------------------- what the run has done -------------------- *)

CallsOf(node) == { k \in 1..Len(calls) : calls[k].node = node }
Raised == { k \in 1..Len(calls) : calls[k].out.kind = "raise" }
Ended == phase \in {"done", "aborted"}

\* the orchestrator has returned its Command
OrchestratorReturned == calls # <<>> /\ calls[1].out.kind = "command"

\* number of worker branches the orchestrator's fan-out spawned
Dispatched ==
    IF OrchestratorReturned /\ calls[1].out.goto.kind = "fanout"
    THEN Len(calls[1].out.goto.sends) ELSE 0

SynthesizerAdmitted == \E i \in 1..Len(active) : active[i].node = "synthesizer"
SynthesizerStep == { calls[k].step : k \in CallsOf("synthesizer") }
                   \cup (IF SynthesizerAdmitted THEN {step} ELSE {})

Contents(ms) == [i \in 1..Len(ms) |-> ms[i].content]

(* ---------------------------- C1 ---------------------------------------- *)

\* C1: every run ends: the active branch set becomes empty after at most one
\* Step per node of the graph; a run in which no node raised ends "done", and
\* what app.invoke returns is the State at that point.
C1_RunTerminates ==
    /\ <>(Ended /\ active = <<>>)
    /\ [](phase = "done" => active = <<>> /\ result = state)
    /\ [](phase = "aborted" => Raised # {})
    /\ [](step <= Len(NodeNames))

C1_Witness ==
    /\ phase = "done"
    /\ result = state
    /\ Cardinality(CallsOf("worker")) >= 2
    /\ CallsOf("synthesizer") # {}

(* ---------------------------- C2 ---------------------------------------- *)

\* C2: join barrier: whenever the synthesizer is scheduled or has been
\* invoked, every worker the orchestrator dispatched has returned, in an
\* earlier Step, and no worker branch is left in the active set.
C2_JoinBarrier ==
    \A s \in SynthesizerStep :
        /\ \A i \in 1..Len(active) : active[i].node # "worker"
        /\ Cardinality({ k \in CallsOf("worker") : calls[k].out.kind = "command" }) = Dispatched
        /\ \A k \in CallsOf("worker") : calls[k].step < s

C2_Witness ==
    /\ CallsOf("synthesizer") # {}
    /\ Dispatched >= 2

(* ---------------------------- C3 ---------------------------------------- *)

\* C3: the synthesizer is never invoked more than once, and a run in which
\* N >= 1 workers returned and that ended "done" invoked it exactly once and
\* holds exactly one message of the synthesizer.
C3_SynthesizerOnce ==
    /\ Cardinality(CallsOf("synthesizer")) <= 1
    /\ Cardinality({ i \in 1..Len(active) : active[i].node = "synthesizer" }) <= 1
    /\ (phase = "done" /\ CallsOf("worker") # {}) =>
          /\ Cardinality(CallsOf("synthesizer")) = 1
          /\ Cardinality({ i \in 1..Len(state.messages) : state.messages[i].role = "ai" }) = 1

C3_Witness ==
    /\ phase = "done"
    /\ Cardinality(CallsOf("worker")) >= 2
    /\ Cardinality(CallsOf("synthesizer")) = 1

(* ---------------------------- C4 ---------------------------------------- *)

\* the report the worker spawned i-th returned
WorkerText(i) ==
    LET k == CHOOSE k \in CallsOf("worker") : calls[k].index = i
    IN  calls[k].out.update.analyses[1]

\* the answer the synthesizer returned
SynthesizerAnswer ==
    LET k == CHOOSE k \in CallsOf("synthesizer") : TRUE
    IN  calls[k].out.update.messages.content

Count(seq, x) == Cardinality({ i \in 1..Len(seq) : seq[i] = x })

\* the run of the scenario: in scope with two research tasks, ended "done"
TwoTaskRunDone ==
    /\ phase = "done"
    /\ cia_output # None
    /\ cia_output.in_scope
    /\ Len(cia_output.research_tasks.items) = 2

TwoReportsMerged ==
    /\ Len(state.analyses) = 2
    /\ \A r \in Reports :
          Count(state.analyses, r) = Count(<<WorkerText(1), WorkerText(2)>>, r)

OutOfScope ==
    /\ OrchestratorReturned
    /\ ~cia_output.in_scope

\* C5: out of scope, the orchestrator routes to END: no worker and no
\* synthesizer is ever scheduled or invoked, the run ends in its first Step,
\* and the final State is the State the orchestrator received with the
\* response appended once to messages and analyses untouched.
C5_OutOfScopeEnds ==
    OutOfScope =>
        /\ calls[1].out.goto = Terminal
        /\ Len(calls) = 1
        /\ step = 1
        /\ \A i \in 1..Len(active) : active[i].node = "orchestrator"
        /\ phase \in {"running", "done"}
        /\ phase = "done" =>
              /\ active = <<>>
              /\ result = state
              /\ Len(state.messages) = Len(calls[1].input.messages) + 1
              /\ SubSeq(state.messages, 1, Len(calls[1].input.messages)) = calls[1].input.messages
              /\ state.messages[Len(state.messages)].content = cia_output.response
              /\ state.analyses = calls[1].input.analyses

C5_Witness ==
    /\ OutOfScope
    /\ phase = "done"
    /\ cia_output.research_tasks # None
    /\ cia_output.research_tasks.items # <<>>

(* ---------------------------- C6 ---------------------------------------- *)

\* C6: the State the synthesizer is scheduled with and invoked with holds
\* exactly as many analyses as the orchestrator dispatched workers, whatever
\* the order in which the workers returned.
C6_AnalysesAtJoin ==
    /\ \A k \in CallsOf("synthesizer") : Len(calls[k].input.analyses) = Dispatched
    /\ \A i \in 1..Len(active) :
          active[i].node = "synthesizer" => Len(active[i].input.analyses) = Dispatched

\* the workers returned in the reverse of their spawn order
C6_Witness ==
    /\ CallsOf("synthesizer") # {}
    /\ Dispatched >= 2
    /\ \E j, k \in CallsOf("worker") : j < k /\ calls[j].index > calls[k].index

(* ---------------------------- C7 ---------------------------------------- *)

\* the CIA model answered in scope with research_tasks = None, and the run ended
NullTasksRunEnded ==
    /\ Ended
    /\ cia_output # None
    /\ cia_output.in_scope
    /\ cia_output.research_tasks = None

\* C7 as stated: in scope with research_tasks = None the run aborts with
\* MalformedDecisionError, no branch is spawned, and the State is the one the
\* orchestrator's Step started with.
C7_Claim ==
    NullTasksRunEnded =>
        /\ phase = "aborted"
        /\ error = Raise("MalformedDecisionError")
        /\ Len(calls) = 1
        /\ state = calls[1].input

(* ---------------------------- C8 ---------------------------------------- *)

\* the CIA model answered in scope with an empty list of tasks, and the run ended
EmptyTasksRunEnded ==
    /\ Ended
    /\ cia_output # None
    /\ cia_output.in_scope
    /\ cia_output.research_tasks = List(<<>>)

\* C8 as stated: in scope with an empty research_tasks list the run is
\* rejected with MalformedDecisionError and never ends normally.
C8_Claim ==
    EmptyTasksRunEnded =>
        /\ phase = "aborted"
        /\ error = Raise("MalformedDecisionError")

(* ---------------------------- C9 ---------------------------------------- *)

\* the orchestrator returned on an in-scope decision with no research task
EmptyFanOut ==
    /\ OrchestratorReturned
    /\ cia_output.in_scope
    /\ cia_output.research_tasks = List(<<>>)

\* the State the same Command leaves when its routing is END
AsIfTerminal ==
    apply_writes(calls[1].input, <<calls[1].out.update>>, Len(calls[1].input.messages) + 1)

\* C9: the Command with a fan-out list of zero entries is accepted and acts
\* as routing to END does: its update is merged, no worker and no
\* synthesizer is scheduled, and the run ends in that Step with the State
\* the same Command routed to END leaves.
C9_EmptyFanOutIsTerminal ==
    EmptyFanOut =>
        /\ calls[1].out.goto = FanOut(<<>>)
        /\ Len(calls) = 1
        /\ step = 1
        /\ \A i \in 1..Len(active) : active[i].node = "orchestrator"
        /\ phase \in {"running", "done"}
        /\ phase = "done" =>
              /\ active = <<>>
              /\ route(<<[calls[1].out EXCEPT !.goto = Terminal]>>, AsIfTerminal) = <<>>
              /\ state = AsIfTerminal
              /\ result = state
              /\ Len(state.messages) = Len(calls[1].input.messages) + 1

C9_Witness ==
    /\ EmptyFanOut
    /\ phase = "done"
    /\ Len(state.messages) = 2

(* ---------------------------- C10 --------------------------------------- *)

\* the workers of Steps before Step s that returned report r
ReportedBefore(s, r) ==
    { j \in CallsOf("worker") :
        /\ calls[j].step < s
        /\ calls[j].out.kind = "command"
        /\ calls[j].out.update.analyses = <<r>> }

\* the contents the nodes of Steps before Step s returned for messages
SaidBefore(s) ==
    { calls[j].out.update.messages.content :
        j \in { k \in 1..Len(calls) :
                  /\ calls[k].step < s
                  /\ calls[k].out.kind = "command"
                  /\ "messages" \in DOMAIN calls[k].out.update } }

\* st holds every update of the Steps before Step s, and no other report
FullyMerged(st, s) ==
    /\ \A r \in Reports : Count(st.analyses, r) = Cardinality(ReportedBefore(s, r))
    /\ SaidBefore(s) \subseteq { st.messages[i].content : i \in 1..Len(st.messages) }

\* C10: merge barrier: the State holds nothing of a Step before the Step is
\* merged, and the State a node takes in a later Step holds the updates of
\* all branches of all earlier Steps, never only some siblings' updates.
C10_MergeBarrier ==
    /\ phase = "running" => FullyMerged(state, step)
    /\ \A k \in CallsOf("orchestrator") \cup CallsOf("synthesizer") :
          FullyMerged(calls[k].input, calls[k].step)
    /\ \A i \in 1..Len(active) :
          active[i].node # "worker" => active[i].input = state

C10_Witness ==
    /\ CallsOf("synthesizer") # {}
    /\ Cardinality(CallsOf("worker")) >= 2
    /\ \E r \in Reports : Cardinality(ReportedBefore(step, r)) >= 2

(* ---------------------------- C11 --------------------------------------- *)

RECURSIVE IncomingAnalyses(_)
\* the analyses of a sequence of updates, one after the other
IncomingAnalyses(ups) ==
    IF ups = <<>> THEN <<>>
    ELSE (IF "analyses" \in DOMAIN Head(ups) THEN Head(ups).analyses ELSE <<>>)
         \o IncomingAnalyses(Tail(ups))

RECURSIVE IncomingContents(_)
\* the contents of the messages of a sequence of updates, one after the other
IncomingContents(ups) ==
    IF ups = <<>> THEN <<>>
    ELSE (IF "messages" \in DOMAIN Head(ups)
          THEN Contents(as_list(Head(ups).messages)) ELSE <<>>)
         \o IncomingContents(Tail(ups))

\* the updates about to be applied: the seed of app.invoke, or the updates
\* of the Step whose branches have all returned
PendingUpdates ==
    IF phase = "idle" THEN <<[messages |-> Str(Request)]>>
    ELSE IF \A i \in 1..Len(active) : active[i].status = "returned" THEN updates
    ELSE <<>>

\* C11: a node invocation leaves the State as it is, and the State changes
\* only by the seed or in the Merge of a Step whose branches have all
\* returned: then analyses is the old value followed by the incoming
\* entries, and messages the old value followed by the incoming messages.
C11_StateFrame ==
    [][ /\ calls' # calls => state' = state
        /\ state' # state =>
              /\ calls' = calls
              /\ state'.analyses = state.analyses \o IncomingAnalyses(PendingUpdates)
              /\ Len(state'.messages) >= Len(state.messages)
              /\ SubSeq(state'.messages, 1, Len(state.messages)) = state.messages
              /\ Contents(SubSeq(state'.messages, Len(state.messages) + 1, Len(state'.messages)))
                    = IncomingContents(PendingUpdates)
      ]_vars

\* a Merge has changed both fields after every node has been invoked
C11_Witness ==
    /\ phase = "done"
    /\ Len(state.messages) = 3
    /\ Len(state.analyses) >= 2

(* ---------------------------- C12 --------------------------------------- *)

\* the Step in which the first node raised
FailedStep == calls[CHOOSE k \in Raised : \A j \in Raised : k <= j].step

\* the messages updates the nodes of Steps before Step s returned
MessageUpdatesBefore(s) ==
    { k \in 1..Len(calls) :
        /\ calls[k].step < s
        /\ calls[k].out.kind = "command"
        /\ "messages" \in DOMAIN calls[k].out.update }

\* C12: once a branch has raised, nothing of its Step is merged, also not of
\* the siblings that return: the State stays the one merged at the end of
\* the last completed Step, no further Step is scheduled, the run does not
\* end "done", and once it is aborted no node is invoked and nothing changes.
C12_AbortDiscardsStep ==
    /\ [](Raised # {} =>
            /\ step = FailedStep
            /\ \A k \in 1..Len(calls) : calls[k].step <= FailedStep
            /\ phase \in {"running", "aborted"}
            /\ result = None
            /\ FullyMerged(state, FailedStep)
            /\ Len(state.messages) = Len(calls[1].input.messages)
                                     + Cardinality(MessageUpdatesBefore(FailedStep)))
    /\ [](phase = "aborted" => Raised # {} /\ active = <<>>)
    /\ [][Raised # {} => state' = state /\ step' = step]_vars
    /\ [][phase = "aborted" => UNCHANGED vars]_vars

\* a worker raised, a sibling returned its report, and the run was aborted
C12_Witness ==
    /\ phase = "aborted"
    /\ \E j \in Raised : calls[j].node = "worker"
    /\ \E k \in CallsOf("worker") : calls[k].out.kind = "command"
    /\ state.analyses = <<>>

(* ---------------------------- C13 --------------------------------------- *)

\* the invocations of the branch spawned i-th in Step s
InvocationsOf(s, i) == { k \in 1..Len(calls) : calls[k].step = s /\ calls[k].index = i }

\* C13: no retry: every scheduled branch is invoked at most once, a branch
\* that has run is not pending again, and after a node has raised only its
\* siblings of the same Step are still invoked, never the failed branch.
C13_NoRetry ==
    /\ \A k \in 1..Len(calls) : InvocationsOf(calls[k].step, calls[k].index) = {k}
    /\ \A i \in 1..Len(active) :
          Cardinality(InvocationsOf(step, i)) = IF active[i].status = "pending" THEN 0 ELSE 1
    /\ \A j \in Raised : \A k \in 1..Len(calls) :
          k > j => calls[k].step = calls[j].step /\ calls[k].index # calls[j].index

\* a worker raised and a sibling was invoked after it
C13_Witness ==
    \E j \in Raised : \E k \in CallsOf("worker") : calls[j].node = "worker" /\ k > j

(* ---------------------------- C14 --------------------------------------- *)

\* the orchestrator returned on a decision that is in scope
InScope ==
    /\ OrchestratorReturned
    /\ cia_output.in_scope

\* the research tasks of the decision
Tasks == cia_output.research_tasks.items

\* C14: in scope with tasks t1..tN the Step after the orchestrator's starts
\* with exactly N branches, all workers, the i-th with task ti as its input, and
\* every worker invoked was handed the task of its own branch and nothing
\* else; once that Step is over each task went to exactly one worker.
C14_OneWorkerPerTask ==
    InScope =>
        /\ \A k \in CallsOf("worker") :
              /\ calls[k].index \in 1..Len(Tasks)
              /\ calls[k].input = Tasks[calls[k].index]
              /\ calls[k].step = calls[1].step + 1
        /\ (phase = "running" /\ step = calls[1].step + 1) =>
              /\ Len(active) = Len(Tasks)
              /\ \A i \in 1..Len(active) :
                    active[i].node = "worker" /\ active[i].input = Tasks[i]
        /\ step > calls[1].step + 1 =>
              \A i \in 1..Len(Tasks) :
                  Cardinality({ k \in CallsOf("worker") : calls[k].index = i }) = 1

\* two different tasks were handed to two workers, in either order
C14_Witness ==
    /\ InScope
    /\ Len(Tasks) >= 2
    /\ Tasks[1] # Tasks[2]
    /\ \E j, k \in CallsOf("worker") :
          j < k /\ calls[j].index = 2 /\ calls[k].index = 1

(* ---------------------------- the reducers on their own ----------------- *)

\* the ids and contents of the messages handed to add_messages
MessageIds == { Uuid(1), Uuid(2) }
MessageContents == { "a", "b" }

\* the items an update can carry: messages with an id, and a bare string as
\* the orchestrator and the caller pass
IdMessages == { BaseMessage("human", c, id) : c \in MessageContents, id \in MessageIds }
BareStrings == { Str("a") }
IncomingMessages == IdMessages \cup BareStrings

Ids(ms) == { ms[i].id : i \in 1..Len(ms) }
DistinctIds(ms) == \A i, j \in 1..Len(ms) : i # j => ms[i].id # ms[j].id

\* the values messages can hold: its entries have ids, pairwise distinct
StoredMessages ==
    { [i \in 1..Len(ms) |-> StateMessage(ms[i])] :
        ms \in { t \in SeqsUpTo(IdMessages, MaxLen) : DistinctIds(t) } }

\* the updates of one field
MessagesUpdates ==
    { [messages |-> List(ms)] : ms \in SeqsUpTo(IncomingMessages, MaxLen) }
        \cup { [messages |-> s] : s \in BareStrings }
AnalysesUpdates == { [analyses |-> as] : as \in SeqsUpTo(Reports, MaxLen) }

\* the operands of the laws of the reducers: a current value and two updates
Operands == <<"A", "B", "C">>

\* a State with one field filled, before any update
ReducerInit ==
    /\ phase = "merge"
    /\ state \in { [messages |-> ms, analyses |-> <<>>] : ms \in StoredMessages }
                 \cup { [messages |-> <<>>, analyses |-> as] : as \in SeqsUpTo(Reports, MaxLen) }
    /\ active = <<>>
    /\ step = 0
    /\ next_id = Cardinality(MessageIds) + 1
    /\ cia_output = None
    /\ error = None
    /\ result = None
    /\ calls = <<>>
    /\ graph = CompiledGraph
    /\ runs = <<>>

\* one update merged into the State through the reducer of its field
merge(update) ==
    /\ phase = "merge"
    /\ Len(calls) < Len(Operands) - 1
    /\ "messages" \in DOMAIN update => state.analyses = <<>>
    /\ "analyses" \in DOMAIN update => state.messages = <<>>
    /\ state' = apply_update(state, update, next_id)
    /\ next_id' = next_id + new_ids(update)
    /\ calls' = Append(calls, [node |-> "merge", step |-> Len(calls) + 1, index |-> 1,
                               input |-> state, out |-> update])
    /\ UNCHANGED <<phase, active, step, cia_output, error, result, graph, runs>>

ReducerNext == \E update \in MessagesUpdates \cup AnalysesUpdates : merge(update)

ReducerSpec == ReducerInit /\ [][ReducerNext]_vars

(* ---------------------------- one Step of sibling branches ------------- *)

\* the updates a branch can return: one report, a message under an id that
\* is stored and that its siblings use too, a bare string, and an update
\* that names a field the schema does not have next to one it has
StepUpdates ==
    { [analyses |-> <<r>>] : r \in Reports }
        \cup { [messages |-> List(<<BaseMessage("ai", c, Uuid(1))>>)] : c \in MessageContents }
        \cup { [messages |-> s] : s \in BareStrings }
        \cup { [analyses |-> <<r>>, notes |-> <<r>>] : r \in {"r1"} }

\* what a branch of the Step can leave: a Command that ends its path, or an
\* exception of its own
StepOutcomes ==
    { Return(Command(u, Goto(END))) : u \in StepUpdates } \cup { Raise("NodeExecutionError") }

\* the States a Step can start from
StepStates ==
    { State,
      [ messages |-> <<StateMessage(BaseMessage("human", Request, Uuid(1)))>>,
        analyses |-> <<"r1">> ] }

\* a Step is under way: up to MaxTasks sibling branches, spawned in the order
\* of active, none of them run yet
StepInit ==
    /\ phase = "running"
    /\ state \in StepStates
    /\ \E n \in 1..MaxTasks : active = [i \in 1..n |-> Branch(NodeNames[2], state)]
    /\ step = 1
    /\ next_id = Cardinality(MessageIds) + 1
    /\ cia_output = None
    /\ error = None
    /\ result = None
    /\ calls = <<>>
    /\ graph = CompiledGraph
    /\ runs = <<>>

\* branch i completes, in any order among its siblings
run_branch(i) ==
    /\ phase = "running"
    /\ i \in 1..Len(active)
    /\ active[i].status = "pending"
    /\ \E out \in StepOutcomes : finished(i, out)
    /\ UNCHANGED <<phase, state, step, next_id, cia_output, error, result, graph, runs>>

StepNext ==
    \/ \E i \in 1..Len(active) : run_branch(i)
    \/ merge_step
    \/ abort_run

\* the branches of one Step complete in any order and the Step is merged
StepSpec == StepInit /\ [][StepNext]_vars

\* the State the k-th merge left
Merged(k) == IF k < Len(calls) THEN calls[k + 1].input ELSE state

MessagesMerges == { k \in 1..Len(calls) : "messages" \in DOMAIN calls[k].out }
AnalysesMerges == { k \in 1..Len(calls) : "analyses" \in DOMAIN calls[k].out }

\* what identifies the j-th item of an update: its id, or for a bare string
\* (which gets an id of its own) its place in the update
Key(items, j) ==
    IF items[j].kind = "str" THEN [kind |-> "bare", n |-> j] ELSE items[j].id

\* the last item of the update with the key of the j-th
LastOf(items, j) ==
    CHOOSE l \in j..Len(items) :
        /\ Key(items, l) = Key(items, j)
        /\ \A l2 \in (l + 1)..Len(items) : Key(items, l2) # Key(items, j)

\* the items that come first with an id that current does not hold
Unseen(current, items) ==
    { j \in 1..Len(items) :
        /\ Key(items, j) \notin Ids(current)
        /\ \A j2 \in 1..(j - 1) : Key(items, j2) # Key(items, j) }

\* merged is current with the items upserted by id: the entries of current
\* keep their places, an entry whose id comes in carries the last item with
\* that id, and the unseen items follow in their order in the update
UpsertedById(current, items, merged) ==
    LET unseen == Unseen(current, items)
        place(j) == Len(current) + Cardinality({ j2 \in unseen : j2 <= j })
    IN  /\ Len(merged) = Len(current) + Cardinality(unseen)
        /\ \A i \in 1..Len(current) :
              LET hits == { j \in 1..Len(items) : Key(items, j) = current[i].id }
              IN  IF hits = {} THEN merged[i] = current[i]
                  ELSE \A j \in hits :
                          merged[i] = StateMessage(items[LastOf(items, j)])
        /\ \A j \in unseen :
              LET last == convert_to_message(items[LastOf(items, j)])
              IN  /\ merged[place(j)].content = last.content
                  /\ merged[place(j)].role = last.role
                  /\ IF items[j].kind = "str"
                     THEN /\ merged[place(j)].id \notin Ids(current)
                          /\ \A j2 \in 1..Len(items) :
                                merged[place(j)].id # Key(items, j2)
                     ELSE merged[place(j)].id = items[j].id

\* C15: add_messages, the reducer of messages, takes the items of the update
\* in order: an item whose id is already held replaces that entry at the same
\* position, an item with an unseen id is appended at the end, the appended
\* items keep their order in the update, and every other entry of the
\* current value keeps its position.
C15_UpsertById ==
    \A k \in MessagesMerges :
        UpsertedById(calls[k].input.messages, as_list(calls[k].out.messages),
                     Merged(k).messages)

\* a stored entry was replaced in place and an unseen item was appended
C15_Witness ==
    /\ Len(calls) = 1
    /\ MessagesMerges = {1}
    /\ Len(calls[1].input.messages) = MaxLen
    /\ Len(state.messages) = MaxLen + 1
    /\ state.messages[1].id = calls[1].input.messages[1].id
    /\ state.messages[1].content # calls[1].input.messages[1].content
    /\ state.messages[MaxLen] = calls[1].input.messages[MaxLen]

\* the same messages update was merged twice in a row
MergedTwice ==
    /\ Len(calls) = Len(Operands) - 1
    /\ MessagesMerges = 1..Len(calls)
    /\ calls[1].out = calls[Len(calls)].out

\* every item of the update is a message that carries an id
CarriesIds(update) ==
    \A j \in 1..Len(as_list(update.messages)) :
        /\ as_list(update.messages)[j].kind = "msg"
        /\ as_list(update.messages)[j].id # None

\* C16 as stated: merging the same update a second time changes nothing,
\* for every current value and every update.
C16_Original ==
    MergedTwice => state.messages = Merged(1).messages

\* C16: add_messages is idempotent in its update when every item of the
\* update carries an id: merging the same update a second time leaves
\* messages as the first merge left it.
C16_IdempotentWithIds ==
    (MergedTwice /\ CarriesIds(calls[1].out)) => state.messages = Merged(1).messages

\* an update that appended one message and replaced another was merged twice
C16_Witness ==
    /\ MergedTwice
    /\ CarriesIds(calls[1].out)
    /\ Len(calls[1].input.messages) = 1
    /\ Len(Merged(1).messages) = MaxLen
    /\ Merged(1).messages[1] # calls[1].input.messages[1]
    /\ state.messages = Merged(1).messages

\* the operands of the laws: the current value and the items of two updates
OperandA == calls[1].input.messages
OperandB == as_list(calls[1].out.messages)
OperandC == as_list(calls[Len(calls)].out.messages)

\* A was merged with B and then with C, B and C sequences of messages with
\* distinct ids that touch disjoint ids
DisjointMerges ==
    /\ Len(calls) = Len(Operands) - 1
    /\ MessagesMerges = 1..Len(calls)
    /\ CarriesIds(calls[1].out) /\ CarriesIds(calls[Len(calls)].out)
    /\ DistinctIds(OperandB) /\ DistinctIds(OperandC)
    /\ Ids(OperandB) \cap Ids(OperandC) = {}

\* C17: for A, B, C sequences of messages with distinct ids, B and C
\* touching disjoint ids, merging B and then C into A gives what merging
\* B followed by C in one update gives.
C17_AssociativeWhenDisjoint ==
    DisjointMerges =>
        /\ state.messages = add_messages(OperandA, List(OperandB \o OperandC), next_id)
        /\ UpsertedById(OperandA, OperandB \o OperandC, state.messages)

\* B replaced the entry of A and C appended a message with another id
C17_Witness ==
    /\ DisjointMerges
    /\ Len(OperandA) = 1 /\ Len(OperandB) = 1 /\ Len(OperandC) = 1
    /\ OperandB[1].id = OperandA[1].id
    /\ OperandB[1].content # OperandA[1].content
    /\ state.messages = <<StateMessage(OperandB[1]), StateMessage(OperandC[1])>>

\* merged is current followed by incoming, entry for entry
FollowedBy(current, incoming, merged) ==
    /\ Len(merged) = Len(current) + Len(incoming)
    /\ \A i \in 1..Len(current) : merged[i] = current[i]
    /\ \A j \in 1..Len(incoming) : merged[Len(current) + j] = incoming[j]

\* two analyses updates were merged one after the other
AnalysesMergedTwice ==
    /\ Len(calls) = Len(Operands) - 1
    /\ AnalysesMerges = 1..Len(calls)

\* C18: operator.add, the reducer of analyses, returns the current value
\* followed by the update verbatim, with nothing dropped as a duplicate, and
\* is associative: (A + B) + C = A + (B + C).
C18_ConcatVerbatimAssociative ==
    /\ \A k \in AnalysesMerges :
          FollowedBy(calls[k].input.analyses, calls[k].out.analyses, Merged(k).analyses)
    /\ AnalysesMergedTwice =>
          state.analyses = operator_add(calls[1].input.analyses,
                                        operator_add(calls[1].out.analyses,
                                                     calls[Len(calls)].out.analyses))

\* three non-empty lists were joined and a record held already came in again
C18_Witness ==
    /\ AnalysesMergedTwice
    /\ calls[1].input.analyses # <<>>
    /\ calls[1].out.analyses # <<>>
    /\ calls[Len(calls)].out.analyses # <<>>
    /\ calls[1].out.analyses[1] = calls[1].input.analyses[1]
    /\ Len(state.analyses) = Len(Operands)

\* x is w repeated some number of times
Repeats(x, w) ==
    /\ w # <<>>
    /\ Len(x) % Len(w) = 0
    /\ \A i \in 1..Len(x) : x[i] = w[((i - 1) % Len(w)) + 1]

\* A and B are repetitions of one same sequence (an empty one repeats any)
RepeatOneSequence(A, B) ==
    \/ A = <<>>
    \/ B = <<>>
    \/ \E n \in 1..Len(A) : Repeats(A, SubSeq(A, 1, n)) /\ Repeats(B, SubSeq(A, 1, n))

\* C19 as stated: for sequences A and B, A + B differs from B + A.
C19_Original ==
    \A k \in AnalysesMerges :
        Merged(k).analyses # operator_add(calls[k].out.analyses, calls[k].input.analyses)

\* C19: operator.add is not commutative: A + B is the entries of A followed
\* by those of B, in the order the operands are given, and it differs from
\* B + A except when A and B are repetitions of one same sequence (as when
\* one of them is empty or they are equal).
C19_NotCommutative ==
    \A k \in AnalysesMerges :
        /\ FollowedBy(calls[k].input.analyses, calls[k].out.analyses, Merged(k).analyses)
        /\ (Merged(k).analyses = operator_add(calls[k].out.analyses, calls[k].input.analyses))
              <=> RepeatOneSequence(calls[k].input.analyses, calls[k].out.analyses)

\* two lists of different lengths and first entries were joined, and joining
\* them the other way round gives another list
C19_Witness ==
    /\ Len(calls) = 1
    /\ AnalysesMerges = {1}
    /\ Len(calls[1].input.analyses) = MaxLen
    /\ Len(calls[1].out.analyses) = 1
    /\ calls[1].out.analyses[1] # calls[1].input.analyses[1]
    /\ state.analyses = calls[1].input.analyses \o calls[1].out.analyses
    /\ state.analyses # calls[1].out.analyses \o calls[1].input.analyses

(* ---------------------------- C20 --------------------------------------- *)

\* where the entry with this id stands
Position(ms, id) == CHOOSE i \in 1..Len(ms) : ms[i].id = id

\* every entry of old is still in new, and in the order they had in old
KeepsOrder(old, new) ==
    /\ \A i \in 1..Len(old) : old[i].id \in Ids(new)
    /\ \A i, j \in 1..Len(old) :
          i < j => Position(new, old[i].id) < Position(new, old[j].id)

\* C20: in every State of a run the ids of the entries of messages are
\* pairwise distinct and each entry has an id, and no step changes the
\* relative order of the entries that messages already held: the transcript
\* is never duplicated or reordered.
C20_Transcript ==
    /\ [](DistinctIds(state.messages) /\ None \notin Ids(state.messages))
    /\ [][KeepsOrder(state.messages, state'.messages)]_vars

\* the run ended with the request, the response and the answer in that order
C20_Witness ==
    /\ phase = "done"
    /\ Len(state.messages) = Len(NodeNames)
    /\ DistinctIds(state.messages)
    /\ state.messages[1].content = Request
    /\ state.messages[2].content \in Responses
    /\ state.messages[Len(state.messages)].content \in Answers

(* ---------------------------- C22 --------------------------------------- *)

\* C22 as stated: the messages reducer never invents an id, and a run in
\* which an item without an id reached it (the bare string of the seed or of
\* the orchestrator's update) has aborted with ReducerError.
C22_Original ==
    /\ next_id = 1
    /\ state.messages # <<>> => (phase = "aborted" /\ error = Raise("ReducerError"))

\* C22: add_messages accepts an item without an id. The bare string of the
\* seed and the bare string of the orchestrator's update are each stored as
\* a human message under a fresh id, one entry per item, and no run ends
\* with ReducerError.
C22_IdlessStored ==
    /\ error # Raise("ReducerError")
    /\ Len(state.messages) = next_id - 1
    /\ \A i \in 1..Len(state.messages) : state.messages[i].id = Uuid(i)
    /\ Len(state.messages) >= 1 =>
          state.messages[1] = [id |-> Uuid(1), role |-> "human", content |-> Request]
    /\ Len(state.messages) >= 2 =>
          /\ state.messages[2].role = "human"
          /\ state.messages[2].content = cia_output.response

\* the seed and an out-of-scope response were merged and the run ended
C22_Witness ==
    /\ phase = "done"
    /\ OutOfScope
    /\ Len(state.messages) = 2
    /\ state.messages[2].id = Uuid(2)

(* ---------------------------- C26 --------------------------------------- *)

\* the State of a run seeded with the client request: the request as the one
\* message, under the first fresh id, and no analysis
SeededState ==
    [ messages |-> <<[id |-> Uuid(1), role |-> "human", content |-> Request]>>,
      analyses |-> <<>> ]

\* C26: Start merges the seed into the initial values of the schema through
\* the reducers of the fields: a run seeded with the client request starts
\* with State.messages holding exactly that request, as a message with a
\* fresh id, and empty analyses, a run without seed starts with the initial
\* values, and the entry node is invoked in Step 1 with that State.
C26_SeedMerged ==
    /\ [][(phase = "idle" /\ phase' # "idle") =>
             /\ state' \in {State, SeededState}
             /\ state' = SeededState <=> next_id' = next_id + 1
             /\ active' = <<Branch(NodeNames[1], state')>>
             /\ step' = 1]_vars
    /\ [](\A k \in CallsOf(NodeNames[1]) :
             /\ calls[k].step = 1
             /\ calls[k].input \in {State, SeededState}
             /\ next_id > 1 => calls[k].input = SeededState)

\* the orchestrator was invoked with the seeded State and returned
C26_Witness ==
    /\ OrchestratorReturned
    /\ calls[1].node = NodeNames[1]
    /\ calls[1].input = SeededState
    /\ next_id > 1

(* ---------------------------- C28 --------------------------------------- *)

\* the nodes of the branches of the current Step
ActiveNodes == { active[i].node : i \in 1..Len(active) }

\* the fields the Command of call k updates
UpdatedFields(k) ==
    IF calls[k].out.kind = "command" THEN DOMAIN calls[k].out.update ELSE {}

Targets(k) ==
    IF calls[k].out.kind # "command" THEN {}
    ELSE IF calls[k].out.goto.kind = "single" THEN { calls[k].out.goto.dest }
    ELSE IF calls[k].out.goto.kind = "fanout"
         THEN { calls[k].out.goto.sends[j].node : j \in 1..Len(calls[k].out.goto.sends) }
    ELSE {}

\* C29: the topology is acyclic and bounded: the orchestrator is invoked at
\* most once in a run, in Step 1, and exactly once in a run that ended; it
\* routes to "worker" or END only and no branch routes back to it; workers
\* are invoked only in the Step right after the orchestrator's, the
\* synthesizer only in the Step after that, and no run has more than three
\* Steps.
C29_AcyclicBounded ==
    /\ Cardinality(CallsOf("orchestrator")) <= 1
    /\ Ended => Cardinality(CallsOf("orchestrator")) = 1
    /\ \A k \in CallsOf("orchestrator") : k = 1 /\ calls[k].step = 1 /\ Targets(k) \subseteq {"worker"}
    /\ \A k \in 1..Len(calls) : "orchestrator" \notin Targets(k)
    /\ \A k \in CallsOf("worker") : calls[k].step = calls[1].step + 1
    /\ \A k \in CallsOf("synthesizer") : calls[k].step = calls[1].step + 2
    /\ step > 1 => "orchestrator" \notin ActiveNodes
    /\ step <= Len(NodeNames)

\* a run went through its three Steps
C29_Witness ==
    /\ phase = "done"
    /\ step = Len(NodeNames)
    /\ Cardinality(CallsOf("orchestrator")) = 1
    /\ \E k \in CallsOf("worker") : calls[k].step = 2
    /\ \E k \in CallsOf("synthesizer") : calls[k].step = step

(* ---------------------------- C30 --------------------------------------- *)

\* the run was started with messages = []
Unseeded == phase # "idle" /\ state.messages = <<>>

\* C30: a run started with no message fails inside the orchestrator, which
\* raises IndexError on reading the last message: the orchestrator is the
\* only node invoked, no update is merged, no worker is spawned, and the run
\* can only end aborted, with that exception and without a result.
C30_EmptyMessagesAbort ==
    Unseeded =>
        /\ state = State
        /\ next_id = 1
        /\ ActiveNodes \subseteq {"orchestrator"}
        /\ Len(calls) <= 1
        /\ \A k \in 1..Len(calls) :
              calls[k].node = "orchestrator" /\ calls[k].out = Raise("IndexError")
        /\ phase \in {"running", "aborted"}
        /\ phase = "aborted" =>
              /\ calls # <<>>
              /\ error = Raise("IndexError")
              /\ active = <<>>
              /\ result = None

\* the orchestrator raised on an empty messages list and the run was aborted
C30_Witness ==
    /\ Unseeded
    /\ phase = "aborted"
    /\ Len(calls) = 1
    /\ calls[1].input.messages = <<>>
    /\ error = Raise("IndexError")

(* ---------------------------- C23 --------------------------------------- *)

\* the call on the builder failed with this error and left the builder as it was
FailedWith(exc) ==
    /\ error' = Raise(exc)
    /\ phase' = "failed"
    /\ graph' = graph

\* C23 as stated: add_node fails with DuplicateNodeError on a registered
\* name, and set_entry_point fails with UnknownNodeError on a name that is
\* not registered yet.
C23_Original ==
    [][\A name \in BuilderNames :
          /\ (add_node(name) /\ name \in graph.nodes) => FailedWith("DuplicateNodeError")
          /\ (set_entry_point(name) /\ name \notin graph.nodes) => FailedWith("UnknownNodeError")]_vars

\* C23: add_node fails with DuplicateNodeError on a registered name and
\* registers any other name; set_entry_point records the name whether or not
\* it is registered and never fails, so set_entry_point("orchestrator")
\* followed by add_node("orchestrator", ...) goes through; UnknownNodeError
\* is raised by compile only, on an entry point that is not registered.
C23_BuilderErrors ==
    /\ [][\A name \in BuilderNames :
             /\ add_node(name) =>
                   IF name \in graph.nodes
                   THEN FailedWith("DuplicateNodeError")
                   ELSE /\ graph'.nodes = graph.nodes \cup {name}
                        /\ graph'.entry = graph.entry
                        /\ error' = None /\ phase' = "idle"
             /\ set_entry_point(name) =>
                   /\ graph'.entry = {name}
                   /\ graph'.nodes = graph.nodes
                   /\ error' = None /\ phase' = "idle"]_vars
    /\ [][(error = None /\ error' = Raise("UnknownNodeError")) =>
             /\ ~graph.compiled /\ ~graph'.compiled
             /\ graph.entry # {}
             /\ ~(graph.entry \subseteq graph.nodes)
             /\ FailedWith("UnknownNodeError")]_vars

\* the entry point was set before any node was added, then its node was
\* added and the graph compiled
C23_Witness ==
    /\ graph.compiled
    /\ graph.entry = {NodeNames[1]}
    /\ graph.nodes = {NodeNames[1]}
    /\ phase = "idle"
    /\ error = None

\* the errors of graph construction
BuildErrors == { Raise("DuplicateNodeError"), Raise("UnknownNodeError"), Raise("NoEntryPointError") }

\* C24: construction-time errors are never deferred to run time: a graph is
\* compiled only with an entry point that is set and registered, a run only
\* happens on a compiled graph, and a construction error is only ever seen
\* on a builder that is not compiled, before any node has run - a run that
\* routes to a destination that is not registered ends with a run-time
\* error, never with DuplicateNodeError or UnknownNodeError.
C24_NeverDeferred ==
    /\ graph.compiled => (graph.entry # {} /\ graph.entry \subseteq graph.nodes)
    /\ phase \in {"running", "done", "aborted"} => (graph.compiled /\ error \notin BuildErrors)
    /\ error \in BuildErrors =>
          /\ ~graph.compiled
          /\ phase = "failed"
          /\ step = 0
          /\ calls = <<>>

\* a graph compiled without its worker node ran, the orchestrator fanned out
\* to "worker", and the run was aborted when the destination was resolved
C24_Witness ==
    /\ graph.compiled
    /\ NodeNames[2] \notin graph.nodes
    /\ phase = "aborted"
    /\ step = 1
    /\ Len(calls) = 1
    /\ \E kind \in RunTimeErrors : error = Raise(kind)

\* the first id the current run hands out
RunStart == IF runs = <<>> THEN 1 ELSE runs[Len(runs)]

\* the State a run seeded with the client request starts from
SeededWith(n) ==
    [ messages |-> <<[id |-> Uuid(n), role |-> "human", content |-> Request]>>,
      analyses |-> <<>> ]

\* every message of st was created by the current run
OfThisRun(st) ==
    /\ \A k \in 1..Len(st.messages) : st.messages[k].id.n >= RunStart
    /\ Len(st.analyses) <= Cardinality(CallsOf(NodeNames[2]))

\* C25: runs are isolated: the compiled graph is run again and again, every
\* run starts from the initial values of the schema merged with its own
\* seed, whatever the run before left behind; the State of a run, and the
\* State handed to its orchestrator and synthesizer (a worker is handed its
\* task), holds only messages created by this
\* run and no more analyses than this run's workers returned; and the
\* compiled graph is the same after a run as before.
C25_RunsIsolated ==
    /\ [][(phase = "idle" /\ phase' = "running") =>
             /\ state' \in {State, SeededWith(next_id)}
             /\ active' = <<Branch(NodeNames[1], state')>>]_vars
    /\ [](phase # "idle" =>
             /\ OfThisRun(state)
             /\ \A k \in 1..Len(calls) :
                   calls[k].node # NodeNames[2] => OfThisRun(calls[k].input))
    /\ [][graph' = graph]_vars

\* a second run finished with analyses after a first run that left
\* messages and analyses in its State
C25_Witness ==
    /\ Len(runs) = 1
    /\ runs[1] > 2
    /\ phase = "done"
    /\ state.analyses # <<>>
    /\ Len(state.messages) = Len(NodeNames)

\* the State the Step started from, as it was handed to its branches
StepInput == calls[1].input

\* every branch of the Step has returned its Command
AllReturned ==
    /\ phase = "running"
    /\ active # <<>>
    /\ \A i \in 1..Len(active) : active[i].status = "returned"

\* the fields State declares
Declared == {"messages", "analyses"}

\* C21: a Step whose branches all returned, one of them with an update that
\* names a field State does not declare, ends the run with SchemaError and
\* leaves State as it was before the Step: neither the declared fields of
\* that update nor the updates of its siblings are applied; a run that ends
\* normally merged no such update.
C21_SchemaErrorAtomic ==
    /\ [][(AllReturned /\ \E i \in 1..Len(active) :
                              ~(DOMAIN active[i].out.update \subseteq Declared)) =>
             /\ phase' = "aborted"
             /\ error' = Raise("SchemaError")
             /\ state' = state
             /\ next_id' = next_id
             /\ result' = None]_vars
    /\ [](phase = "done" =>
             \A k \in 1..Len(calls) : DOMAIN calls[k].out.update \subseteq Declared)
    /\ [](error = Raise("SchemaError") =>
             /\ phase = "aborted"
             /\ state = StepInput
             /\ result = None)

\* a branch returned a report together with a field State does not declare,
\* its sibling returned a message, and the run ended with SchemaError
C21_Witness ==
    /\ error = Raise("SchemaError")
    /\ Len(calls) = 2
    /\ \E k, l \in 1..Len(calls) :
          /\ DOMAIN calls[k].out.update = {"analyses", "notes"}
          /\ DOMAIN calls[l].out.update = {"messages"}
    /\ state = StepInput

\* the outcome of the branch spawned i-th, whenever it completed
Output(i) == calls[CHOOSE k \in 1..Len(calls) : calls[k].index = i].out

RECURSIVE AnalysesBySpawn(_)
\* the reports of the branches spawned first to n-th, in that order
AnalysesBySpawn(n) ==
    IF n = 0 THEN <<>>
    ELSE AnalysesBySpawn(n - 1)
            \o (IF "analyses" \in DOMAIN Output(n).update THEN Output(n).update.analyses ELSE <<>>)

\* the branches whose update carries a message under id
Writers(id) ==
    { i \in 1..Len(calls) :
        /\ "messages" \in DOMAIN Output(i).update
        /\ \E k \in 1..Len(converted(Output(i).update.messages)) :
              converted(Output(i).update.messages)[k].id = id }

Last(S) == CHOOSE i \in S : \A j \in S : j <= i

====
